---- MODULE Spec2Model ----
(***************************************************************************)
(* Model of project/set_of_sites.py (PYSCSES): the Set_of_Sites            *)
(* aggregation methods, concatenation and construction from input data.   *)
(*                                                                         *)
(* Numbers.  Real quantities are held as exact integers in fixed units:   *)
(* coordinates are integers, potentials and energy landscapes are         *)
(* multiples of PhiUnit (so that linear interpolation between gridpoints  *)
(* is exact), and a density p / v is held as p * DensityScale \div v,     *)
(* which is exact because every volume divides DensityScale.              *)
(* Sequences are 1-based: Python index i is index i + 1 here.             *)
(***************************************************************************)
EXTENDS Integers, Sequences, FiniteSets, TLC

VARIABLES
    sites,      \* self.sites of the Set_of_Sites the aggregation methods run on
    grid,       \* the Grid passed as grid / full_grid: [x, volumes, is_sequence]
    sub_grid,   \* the Grid passed as sub_grid
    phi,        \* the potential array, one value per gridpoint of grid
    temp,       \* the temperature passed to the aggregation methods
    calls,      \* the calls made so far, oldest first: [op, out]
    site_data,  \* the records load_site_data returned, as the code leaves them
    loaded,     \* the records load_site_data returned, as they were returned
    core,       \* the core argument of set_of_sites_from_input_data
    temperature,\* the temperature argument of set_of_sites_from_input_data
    built,      \* outcome of set_of_sites_from_input_data
    lists,      \* heap of Python list objects holding Site identities
    objs,       \* heap of Set_of_Sites objects: [sites |-> index into lists]
    last        \* the last __add__ / constructor call and its outcome

vars == <<sites, grid, sub_grid, phi, temp, calls, site_data, loaded, core,
          temperature, built, lists, objs, last>>

aggVars == <<sites, grid, sub_grid, phi, temp, calls>>
inputVars == <<site_data, loaded, core, temperature, built>>
addVars == <<lists, objs, last>>

----------------------------------------------------------------------------
(* Bounds *)

MaxSites == 2       \* longest self.sites handed to the aggregation methods
MaxCalls == 3       \* longest sequence of aggregation calls in SpecCalls

GridLens == {2, 3}          \* numbers of gridpoints
Gaps == {1, 2}              \* distances between neighbouring gridpoints
VolumeValues == {1, 2}      \* cell volumes
PhiLevels == {0, 1}         \* potential values, in PhiUnit
EnergyLevels == {1}         \* site energy scale, in PhiUnit
Temps == {1, 2}             \* temperatures

RECURSIVE Prod(_)
Prod(S) == IF S = {} THEN 1 ELSE LET v == CHOOSE v \in S : TRUE IN v * Prod(S \ {v})

SetMax(S) == CHOOSE v \in S : \A w \in S : w <= v

PhiUnit == Prod(Gaps)
DensityScale == Prod(VolumeValues)
MaxGridLen == SetMax(GridLens)
MaxX == SetMax(Gaps) * (MaxGridLen - 1)

SeqsUpTo(S, n) == UNION {[1..k -> S] : k \in 0..n}

RECURSIVE Suffix(_, _)
Suffix(s, k) == IF k = 0 THEN s ELSE Suffix(Tail(s), k - 1)

----------------------------------------------------------------------------
(* Collaborators from project.grid and project.site.  Their code is not in *)
(* this file; they are modelled from their documented contracts.           *)

\* bisect_left: the number of gridpoints strictly left of site_x.
bisect_left(grid_x, site_x) ==
    Cardinality({k \in 1..Len(grid_x) : grid_x[k] < site_x})

\* Index of the gridpoint nearest to site_x; ties go to the lower index and
\* positions outside the grid are clamped to the boundary index.
index_of_grid_at_x(grid_x, site_x) ==
    LET pos == bisect_left(grid_x, site_x) IN
    IF pos = 0 THEN 1
    ELSE IF pos = Len(grid_x) THEN Len(grid_x)
    ELSE IF site_x - grid_x[pos] <= grid_x[pos + 1] - site_x THEN pos
    ELSE pos + 1

\* Linear interpolation of fp (given at grid_x) at site_x, held flat outside.
phi_at_x(fp, grid_x, site_x) ==
    LET pos == bisect_left(grid_x, site_x) IN
    IF pos = 0 THEN fp[1]
    ELSE IF pos = Len(grid_x) THEN fp[Len(grid_x)]
    ELSE fp[pos] + ((fp[pos + 1] - fp[pos]) * (site_x - grid_x[pos]))
                       \div (grid_x[pos + 1] - grid_x[pos])

\* The site's own energy landscape evaluated at site_x in the grid's frame.
energy_at_x(defect_energies, grid_x, site_x) ==
    phi_at_x(defect_energies, grid_x, site_x)

\* Site.probabilities: the site's occupation probability at a local
\* potential and temperature, a fixed law of the site's energy record.
probabilities(site, local_phi, t) ==
    site.defect_energies[1] * t + local_phi

\* A Site at x whose energy landscape has scale e.
Site(x, e) ==
    [x |-> x, defect_energies |-> [k \in 1..MaxGridLen |-> e * PhiUnit * k]]

----------------------------------------------------------------------------
(* numpy arrays: [ndim, data].  An array of shape () has ndim = 0.         *)

\* Mutant: the array of the previous call is handed out again instead of a
\* fresh one.
zeros_like_reused(a) ==
    IF /\ calls # <<>>
       /\ calls[Len(calls)].out.status = "ok"
       /\ Len(calls[Len(calls)].out.array.data) = Len(a)
    THEN [ndim |-> 1, data |-> calls[Len(calls)].out.array.data]
    ELSE [ndim |-> 1, data |-> [k \in 1..Len(a) |-> 0]]

\* np.zeros_like( a ) for a one-dimensional array a.
zeros_like(a) == [ndim |-> 1, data |-> [k \in 1..Len(a) |-> 0]]

\* np.zeros_like( grid ), grid a Grid object and not an array: numpy takes
\* the shape from what the object converts to.  A Grid that behaves as a
\* sequence of its gridpoints gives one entry per gridpoint; any other
\* object is a scalar to numpy and gives an array of shape ().
zeros_like_grid(g) ==
    IF g.is_sequence THEN [ndim |-> 1, data |-> [k \in 1..Len(g.x) |-> 0]]
    ELSE [ndim |-> 0, data |-> <<0>>]

Ok(a) == [status |-> "ok", array |-> a]
Raised(e) == [status |-> e, array |-> [ndim |-> 0, data |-> <<>>]]

----------------------------------------------------------------------------
(* Set_of_Sites.calculate_energies_on_grid *)

\* energies_on_grid[ index ] =+ energy: "=+" is "= +", a plain store of the
\* unary plus of the energy; the entry's previous value is not read.
\* Storing at an index into an array of shape () raises IndexError.
unary_plus(v) == v

energies_store(out, site, g) ==
    IF out.status # "ok" THEN out
    ELSE IF out.array.ndim = 0 THEN Raised("IndexError")
    ELSE Ok([out.array EXCEPT !.data[index_of_grid_at_x(g.x, site.x)] =
                unary_plus(energy_at_x(site.defect_energies, g.x, site.x))])

RECURSIVE energies_loop(_, _, _)
energies_loop(out, ss, g) ==
    IF ss = <<>> THEN out
    ELSE energies_loop(energies_store(out, Head(ss), g), Tail(ss), g)

calculate_energies_on_grid(ss, g, p) ==
    energies_loop(Ok(zeros_like_grid(g)), ss, g)

----------------------------------------------------------------------------
(* Set_of_Sites.calculate_probabilities *)

\* Mutant: the store adds to the entry instead of replacing it.
probability_accumulate(out, site, g, p, t) ==
    Ok([out.array EXCEPT !.data[index_of_grid_at_x(g.x, site.x)] =
            @ + probabilities(site, phi_at_x(p, g.x, site.x), t)])

probability_store(out, site, g, p, t) ==
    Ok([out.array EXCEPT !.data[index_of_grid_at_x(g.x, site.x)] =
            probabilities(site, phi_at_x(p, g.x, site.x), t)])

RECURSIVE probability_loop(_, _, _, _, _)
probability_loop(out, ss, g, p, t) ==
    IF ss = <<>> THEN out
    ELSE probability_loop(probability_store(out, Head(ss), g, p, t), Tail(ss), g, p, t)

calculate_probabilities(ss, g, p, t) ==
    probability_loop(Ok(zeros_like(g.x)), ss, g, p, t)

----------------------------------------------------------------------------
(* Set_of_Sites.calculate_defect_density *)

\* p / v in units of 1 / DensityScale.
Divide(p, v) == (p * DensityScale) \div v

\* Mutant: the contribution replaces the entry instead of adding to it.
defect_density_overwrite(out, site, g, p, t) ==
    LET i == index_of_grid_at_x(g.x, site.x) IN
    Ok([out.array EXCEPT !.data[i] =
            Divide(probabilities(site, phi_at_x(p, g.x, site.x), t), g.volumes[i])])

defect_density_add(out, site, g, p, t) ==
    LET i == index_of_grid_at_x(g.x, site.x) IN
    Ok([out.array EXCEPT !.data[i] =
            @ + Divide(probabilities(site, phi_at_x(p, g.x, site.x), t), g.volumes[i])])

RECURSIVE defect_density_loop(_, _, _, _, _)
defect_density_loop(out, ss, g, p, t) ==
    IF ss = <<>> THEN out
    ELSE defect_density_loop(defect_density_add(out, Head(ss), g, p, t), Tail(ss), g, p, t)

calculate_defect_density(ss, g, p, t) ==
    defect_density_loop(Ok(zeros_like(g.x)), ss, g, p, t)

----------------------------------------------------------------------------
(* Set_of_Sites.subgrid_calculate_defect_density *)

\* Mutant: the potential is interpolated against sub_grid.x.
subgrid_defect_density_add_subframe(out, site, sg, fg, p, t) ==
    LET i == index_of_grid_at_x(sg.x, site.x) IN
    Ok([out.array EXCEPT !.data[i] =
            @ + Divide(probabilities(site, phi_at_x(p, sg.x, site.x), t), sg.volumes[i])])

subgrid_defect_density_add(out, site, sg, fg, p, t) ==
    LET i == index_of_grid_at_x(sg.x, site.x) IN
    Ok([out.array EXCEPT !.data[i] =
            @ + Divide(probabilities(site, phi_at_x(p, fg.x, site.x), t), sg.volumes[i])])

RECURSIVE subgrid_defect_density_loop(_, _, _, _, _, _)
subgrid_defect_density_loop(out, ss, sg, fg, p, t) ==
    IF ss = <<>> THEN out
    ELSE subgrid_defect_density_loop(subgrid_defect_density_add(out, Head(ss), sg, fg, p, t),
                                     Tail(ss), sg, fg, p, t)

subgrid_calculate_defect_density(ss, sg, fg, p, t) ==
    subgrid_defect_density_loop(Ok(zeros_like(sg.x)), ss, sg, fg, p, t)

----------------------------------------------------------------------------
(* Inputs of the aggregation methods *)

RECURSIVE SumTo(_, _)
SumTo(f, k) == IF k = 0 THEN 0 ELSE f[k] + SumTo(f, k - 1)

\* Strictly increasing gridpoint coordinates starting at 0.
GridXs ==
    {[k \in 1..n |-> SumTo(gaps, k - 1)] : <<n, gaps>> \in
        UNION {{<<n, gaps>> : gaps \in [1..(n - 1) -> Gaps]} : n \in GridLens}}

\* Cell volumes: positive, different from gridpoint to gridpoint.
VolumesOn(n) ==
    {[k \in 1..n |-> CHOOSE v \in VolumeValues :
                        v % Cardinality(VolumeValues) = (k + s) % Cardinality(VolumeValues)] :
        s \in 1..Cardinality(VolumeValues)}

Grids ==
    UNION {{[x |-> xs, volumes |-> vs, is_sequence |-> b] :
                vs \in VolumesOn(Len(xs)), b \in BOOLEAN} : xs \in GridXs}

\* The restrictions of g to its last gridpoints (at least two), g included.
SubGridsOf(g) ==
    {[x |-> Suffix(g.x, k), volumes |-> Suffix(g.volumes, k), is_sequence |-> g.is_sequence] :
        k \in 0..(Len(g.x) - 2)}

PhisOn(n) == [1..n -> {l * PhiUnit : l \in PhiLevels}]

Sites == {Site(x, e) : x \in 0..MaxX, e \in EnergyLevels}

InitAgg ==
    /\ sites \in SeqsUpTo(Sites, MaxSites)
    /\ grid \in Grids
    /\ sub_grid \in SubGridsOf(grid)
    /\ phi \in PhisOn(Len(grid.x))
    /\ temp \in Temps
    /\ calls = <<>>

IdleAgg ==
    /\ sites = <<>>
    /\ grid = [x |-> <<0, 1>>, volumes |-> <<1, 1>>, is_sequence |-> FALSE]
    /\ sub_grid = grid
    /\ phi = <<0, 0>>
    /\ temp = 1
    /\ calls = <<>>

IdleInput ==
    /\ site_data = <<>>
    /\ loaded = <<>>
    /\ core = "none"
    /\ temperature = 1
    /\ built = [status |-> "pending", sites |-> <<>>]

IdleAdd ==
    /\ lists = <<>>
    /\ objs = <<>>
    /\ last = [op |-> "none"]

Call(op, out) == calls' = Append(calls, [op |-> op, out |-> out])

CalculateEnergiesOnGrid(n) ==
    /\ Len(calls) < n
    /\ Call("calculate_energies_on_grid", calculate_energies_on_grid(sites, grid, phi))
    /\ UNCHANGED <<sites, grid, sub_grid, phi, temp, inputVars, addVars>>

CalculateProbabilities(n) ==
    /\ Len(calls) < n
    /\ Call("calculate_probabilities", calculate_probabilities(sites, grid, phi, temp))
    /\ UNCHANGED <<sites, grid, sub_grid, phi, temp, inputVars, addVars>>

CalculateDefectDensity(n) ==
    /\ Len(calls) < n
    /\ Call("calculate_defect_density", calculate_defect_density(sites, grid, phi, temp))
    /\ UNCHANGED <<sites, grid, sub_grid, phi, temp, inputVars, addVars>>

SubgridCalculateDefectDensity(n) ==
    /\ Len(calls) < n
    /\ Call("subgrid_calculate_defect_density",
            subgrid_calculate_defect_density(sites, sub_grid, grid, phi, temp))
    /\ UNCHANGED <<sites, grid, sub_grid, phi, temp, inputVars, addVars>>

Init == InitAgg /\ IdleInput /\ IdleAdd

Next ==
    \/ CalculateEnergiesOnGrid(1)
    \/ CalculateProbabilities(1)
    \/ CalculateDefectDensity(1)
    \/ SubgridCalculateDefectDensity(1)

Spec == Init /\ [][Next]_vars

----------------------------------------------------------------------------
(* set_of_sites_from_input_data.  A record line of site_data is held as     *)
(* [x, energy]: x is line[2] and energy is line[4].                         *)

\* The Boltzmann constant, in energy units per kelvin; energies are held in
\* units of boltzmann_eV times one kelvin.
boltzmann_eV == 1

\* Mutant: min with a default, which does not raise on an empty list.
min_or_zero(energies) ==
    IF energies = <<>> THEN [status |-> "ok", value |-> 0]
    ELSE [status |-> "ok",
          value |-> CHOOSE m \in {energies[k] : k \in 1..Len(energies)} :
                        \A k \in 1..Len(energies) : m <= energies[k]]

\* min( energies ): raises ValueError on an empty list.
min(energies) ==
    IF energies = <<>> THEN [status |-> "ValueError", value |-> 0]
    ELSE [status |-> "ok",
          value |-> CHOOSE m \in {energies[k] : k \in 1..Len(energies)} :
                        \A k \in 1..Len(energies) : m <= energies[k]]

\* Mutant: the minimum itself is zeroed too.
flatten_single_inclusive(data, min_energy) ==
    [k \in 1..Len(data) |->
        IF data[k].energy >= min_energy THEN [data[k] EXCEPT !.energy = 0] ELSE data[k]]

\* core == 'single': for line in site_data: if line[4] > min_energy: line[4] = 0.0
flatten_single(data, min_energy) ==
    [k \in 1..Len(data) |->
        IF data[k].energy > min_energy THEN [data[k] EXCEPT !.energy = 0] ELSE data[k]]

\* Mutant: the interval is open.
flatten_multi_site_open(data, t) ==
    [k \in 1..Len(data) |->
        IF (-boltzmann_eV * t) < data[k].energy /\ data[k].energy < (boltzmann_eV * t)
        THEN [data[k] EXCEPT !.energy = 0] ELSE data[k]]

\* core == 'multi_site': if -boltzmann_eV * temperature <= line[4] <=
\* boltzmann_eV * temperature: line[4] = 0.0
flatten_multi_site(data, t) ==
    [k \in 1..Len(data) |->
        IF (-boltzmann_eV * t) <= data[k].energy /\ data[k].energy <= (boltzmann_eV * t)
        THEN [data[k] EXCEPT !.energy = 0] ELSE data[k]]

\* site_from_input_file: the Site built from a record, with the record's
\* position and energy.
site_from_input_file(line) == [x |-> line.x, energy |-> line.energy]

\* The whole function: what it leaves in site_data and what it returns.
set_of_sites_from_input_data(data, c, t) ==
    LET energies == [k \in 1..Len(data) |-> data[k].energy]
        min_energy == min(energies)
    IN  IF min_energy.status # "ok"
        THEN [status |-> min_energy.status, site_data |-> data, sites |-> <<>>]
        ELSE LET d1 == IF c = "single" THEN flatten_single(data, min_energy.value) ELSE data
                 d2 == IF c = "multi_site" THEN flatten_multi_site(d1, t) ELSE d1
             IN  [status |-> "ok", site_data |-> d2,
                  sites |-> [k \in 1..Len(d2) |-> site_from_input_file(d2[k])]]

MaxRecords == 3     \* most records load_site_data returns
MaxEnergy == 3      \* record energies range over -MaxEnergy..MaxEnergy
Cores == {"single", "multi_site", "none"}

InitInput ==
    /\ loaded \in UNION {{[k \in 1..n |-> [x |-> k, energy |-> es[k]]] :
                            es \in [1..n -> (-MaxEnergy)..MaxEnergy]} : n \in 0..MaxRecords}
    /\ site_data = loaded
    /\ core \in Cores
    /\ temperature \in Temps
    /\ built = [status |-> "pending", sites |-> <<>>]

SetOfSitesFromInputData ==
    /\ built.status = "pending"
    /\ LET r == set_of_sites_from_input_data(site_data, core, temperature) IN
        /\ site_data' = r.site_data
        /\ built' = [status |-> r.status, sites |-> r.sites]
    /\ UNCHANGED <<loaded, core, temperature, aggVars, addVars>>

InitInputData == InitInput /\ IdleAgg /\ IdleAdd

NextInput == SetOfSitesFromInputData

SpecInput == InitInputData /\ [][NextInput]_vars

----------------------------------------------------------------------------
(* Set_of_Sites.__init__, __add__ and __iter__ over a heap of list objects. *)
(* A Site instance is its identity; an object's sites field refers to a list.*)

MaxObjs == 3        \* most Set_of_Sites objects alive
SiteIds == {1, 2}   \* Site instances
NonSets == {"None", "list"}     \* values whose type is not Set_of_Sites

\* Mutant: the operands are joined the other way round.
list_concat_reversed(a, b) == b \o a

\* self.sites + other.sites: a new list, self's items then other's.
list_concat(a, b) == a \o b

\* iter( self.sites ): the items of the object's list, in order.
iterate(o) == lists[objs[o].sites]

InitAdd ==
    /\ lists \in [1..2 -> SeqsUpTo(SiteIds, Cardinality(SiteIds))]
    /\ objs = <<>>
    /\ last = [op |-> "none"]

\* Set_of_Sites( sites ): self.sites = sites, the list itself and no copy.
Construct(l) ==
    /\ Len(objs) < MaxObjs
    /\ objs' = Append(objs, [sites |-> l])
    /\ last' = [op |-> "init", result |-> Len(objs) + 1]
    /\ UNCHANGED <<lists, aggVars, inputVars>>

\* The values handed to __add__ as other: the Set_of_Sites objects alive and
\* values of other types.
Others ==
    {[type |-> "Set_of_Sites", ref |-> o] : o \in 1..Len(objs)}
        \cup {[type |-> t, ref |-> 0] : t \in NonSets}

\* self + other: TypeError unless type( other ) is Set_of_Sites, else a new
\* Set_of_Sites over the concatenated list.
Add(self, other) ==
    /\ Len(objs) < MaxObjs
    /\ IF other.type # "Set_of_Sites"
       THEN /\ last' = [op |-> "add", status |-> "TypeError", self |-> self, other |-> other,
                        a |-> iterate(self), b |-> <<>>, result |-> 0]
            /\ UNCHANGED <<lists, objs>>
       ELSE /\ lists' = Append(lists, list_concat(lists[objs[self].sites],
                                                  lists[objs[other.ref].sites]))
            /\ objs' = Append(objs, [sites |-> Len(lists) + 1])
            /\ last' = [op |-> "add", status |-> "ok", self |-> self, other |-> other,
                        a |-> iterate(self), b |-> iterate(other.ref),
                        result |-> Len(objs) + 1]
    /\ UNCHANGED <<aggVars, inputVars>>

NextAdd ==
    \/ \E l \in 1..Len(lists) : Construct(l)
    \/ \E self \in 1..Len(objs), other \in Others : Add(self, other)

InitConcat == InitAdd /\ IdleAgg /\ IdleInput

SpecAdd == InitConcat /\ [][NextAdd]_vars

\* Sequences of calls on one Set_of_Sites and one grid, as an outer
\* convergence loop makes them.
InitCalls ==
    /\ InitAgg
    /\ temp = SetMax(Temps)
    /\ Len(grid.x) = MaxGridLen
    /\ Len(sub_grid.x) < Len(grid.x)
    /\ grid.volumes[1] = SetMax(VolumeValues)
    /\ phi = [k \in 1..Len(grid.x) |-> (k % 2) * PhiUnit]
    /\ IdleInput
    /\ IdleAdd

NextCalls ==
    \/ CalculateEnergiesOnGrid(MaxCalls)
    \/ CalculateProbabilities(MaxCalls)
    \/ CalculateDefectDensity(MaxCalls)
    \/ SubgridCalculateDefectDensity(MaxCalls)

SpecCalls == InitCalls /\ [][NextCalls]_vars

----------------------------------------------------------------------------
(* What the claims say of a call's result, stated over the inputs *)

OutsOf(op) == {calls[c].out : c \in {c \in 1..Len(calls) : calls[c].op = op}}

\* Nearest-gridpoint index of the k-th site on grid g.
SiteIndex(g, k) == index_of_grid_at_x(g.x, sites[k].x)
SitesAt(g, i) == {k \in 1..Len(sites) : SiteIndex(g, k) = i}

\* The k-th site's probability at the potential interpolated in g's frame.
SiteProbability(g, k) ==
    probabilities(sites[k], phi_at_x(phi, g.x, sites[k].x), temp)

SiteEnergy(g, k) == energy_at_x(sites[k].defect_energies, g.x, sites[k].x)

\* Sum over the sites whose index on ig is i of probability / ig.volumes[i],
\* the probability taken at the potential interpolated in pg's frame.
DensitySum(ig, pg, i) ==
    SumTo([k \in 1..Len(sites) |->
              IF SiteIndex(ig, k) = i
              THEN Divide(SiteProbability(pg, k), ig.volumes[i]) ELSE 0], Len(sites))

EnergySum(g, i) ==
    SumTo([k \in 1..Len(sites) |-> IF SiteIndex(g, k) = i THEN SiteEnergy(g, k) ELSE 0],
          Len(sites))

ProbabilitySum(g, i) ==
    SumTo([k \in 1..Len(sites) |-> IF SiteIndex(g, k) = i THEN SiteProbability(g, k) ELSE 0],
          Len(sites))

LastSiteAt(g, i) == CHOOSE k \in SitesAt(g, i) : \A j \in SitesAt(g, i) : j <= k

IsArrayOn(out, g) ==
    /\ out.status = "ok"
    /\ out.array.ndim = 1
    /\ Len(out.array.data) = Len(g.x)

\* C1: calculate_defect_density accumulates: the entry at each gridpoint
\* index i is the sum, over the sites whose nearest-gridpoint index is i, of
\* the site's probability (at the potential interpolated at its x) divided by
\* grid.volumes[i]; equally, it is the sum of the entries the sites produce
\* one by one in isolation.
C1_DefectDensityAccumulates ==
    \A out \in OutsOf("calculate_defect_density") :
        /\ IsArrayOn(out, grid)
        /\ \A i \in 1..Len(grid.x) :
            /\ out.array.data[i] = DensitySum(grid, grid, i)
            /\ out.array.data[i] =
                 SumTo([k \in 1..Len(sites) |->
                          calculate_defect_density(<<sites[k]>>, grid, phi, temp).array.data[i]],
                       Len(sites))

C1_Witness ==
    \E out \in OutsOf("calculate_defect_density") :
        \E i \in 1..Len(grid.x) :
            /\ Cardinality(SitesAt(grid, i)) = 2
            /\ \E j, k \in SitesAt(grid, i) :
                /\ j # k
                /\ sites[j].x # sites[k].x
                /\ SiteProbability(grid, j) # SiteProbability(grid, k)
                /\ out.array.data[i] =
                     Divide(SiteProbability(grid, j), grid.volumes[i])
                       + Divide(SiteProbability(grid, k), grid.volumes[i])
            /\ grid.volumes[i] > 1

\* C2: calculate_energies_on_grid accumulates within one call: the entry at
\* each gridpoint index is the sum of the energies of all the sites mapping
\* to that index.
C2_EnergiesAccumulate ==
    \A out \in OutsOf("calculate_energies_on_grid") :
        grid.is_sequence =>
            /\ IsArrayOn(out, grid)
            /\ \A i \in 1..Len(grid.x) : out.array.data[i] = EnergySum(grid, i)

\* C3: calculate_probabilities overwrites: the entry at each gridpoint index
\* that some site maps to is the probability of the last site, in iteration
\* order, among those mapping to it; it is not the sum of their probabilities
\* (unless the earlier ones add up to nothing).
C3_ProbabilitiesLastWriterWins ==
    \A out \in OutsOf("calculate_probabilities") :
        /\ IsArrayOn(out, grid)
        /\ \A i \in 1..Len(grid.x) :
            SitesAt(grid, i) # {} =>
                /\ out.array.data[i] = SiteProbability(grid, LastSiteAt(grid, i))
                /\ ProbabilitySum(grid, i) # SiteProbability(grid, LastSiteAt(grid, i))
                     => out.array.data[i] # ProbabilitySum(grid, i)

C3_Witness ==
    \E out \in OutsOf("calculate_probabilities") :
        \E i \in 1..Len(grid.x) :
            /\ Cardinality(SitesAt(grid, i)) = 2
            /\ \E j, k \in SitesAt(grid, i) :
                /\ j < k
                /\ SiteProbability(grid, j) > SiteProbability(grid, k)
                /\ out.array.data[i] = SiteProbability(grid, k)

\* C4: subgrid_calculate_defect_density takes the nearest-gridpoint index and
\* the dividing volume from sub_grid and interpolates the potential against
\* full_grid.x, summing the contributions to one index; with sub_grid and
\* full_grid the same grid the result is that of calculate_defect_density.
C4_SubgridRoles ==
    \A out \in OutsOf("subgrid_calculate_defect_density") :
        /\ IsArrayOn(out, sub_grid)
        /\ \A i \in 1..Len(sub_grid.x) : out.array.data[i] = DensitySum(sub_grid, grid, i)
        /\ sub_grid = grid => out = calculate_defect_density(sites, grid, phi, temp)

C4_Witness ==
    \E out \in OutsOf("subgrid_calculate_defect_density") :
        /\ sub_grid # grid
        /\ \E i \in 1..Len(sub_grid.x) :
            /\ Cardinality(SitesAt(sub_grid, i)) = 2
            /\ \E k \in SitesAt(sub_grid, i) :
                /\ phi_at_x(phi, grid.x, sites[k].x) # phi_at_x(phi, sub_grid.x, sites[k].x)
                /\ sub_grid.volumes[i] # grid.volumes[SiteIndex(grid, k)]
            /\ out.array.data[i] = DensitySum(sub_grid, grid, i)
            /\ out.array.data[i] > 0

\* C10: every grid-resolved output has one entry per gridpoint of its target
\* grid, and every entry whose index is the nearest-gridpoint index of no site
\* is 0.
ShapedOn(out, g) ==
    /\ IsArrayOn(out, g)
    /\ \A i \in 1..Len(g.x) : SitesAt(g, i) = {} => out.array.data[i] = 0

\* C10: each of the four outputs is shaped on its target grid, with 0 at
\* every index no site maps to.
C10_OutputShape ==
    /\ \A out \in OutsOf("calculate_energies_on_grid") : ShapedOn(out, grid)
    /\ \A out \in OutsOf("calculate_probabilities") : ShapedOn(out, grid)
    /\ \A out \in OutsOf("calculate_defect_density") : ShapedOn(out, grid)
    /\ \A out \in OutsOf("subgrid_calculate_defect_density") : ShapedOn(out, sub_grid)

\* C5: with core == 'single' and m the minimum energy over the loaded
\* records, every record whose energy is strictly greater than m has energy 0
\* when its Site is built, and every record whose energy is m keeps it.
MinLoaded == CHOOSE m \in {loaded[k].energy : k \in 1..Len(loaded)} :
                \A k \in 1..Len(loaded) : m <= loaded[k].energy

\* C5: core == 'single' zeroes exactly the energies strictly above the
\* minimum.
C5_SingleFlattening ==
    (core = "single" /\ built.status = "ok") =>
        /\ Len(built.sites) = Len(loaded)
        /\ \A k \in 1..Len(loaded) :
            /\ loaded[k].energy > MinLoaded =>
                 (built.sites[k].energy = 0 /\ site_data[k].energy = 0)
            /\ loaded[k].energy = MinLoaded => built.sites[k].energy = loaded[k].energy

C5_Witness ==
    /\ core = "single"
    /\ built.status = "ok"
    /\ Len(loaded) = 3
    /\ loaded[1].energy = -2 /\ loaded[2].energy = -2 /\ loaded[3].energy = 1
    /\ built.sites[1].energy = -2 /\ built.sites[2].energy = -2 /\ built.sites[3].energy = 0

\* C6: with core == 'multi_site', every record whose energy e satisfies
\* -kT <= e <= kT (both bounds included) has energy 0 when its Site is built,
\* and every record whose energy is outside that interval keeps it.
C6_MultiSiteFlattening ==
    (core = "multi_site" /\ built.status = "ok") =>
        /\ Len(built.sites) = Len(loaded)
        /\ \A k \in 1..Len(loaded) :
            LET e == loaded[k].energy
                kT == boltzmann_eV * temperature
            IN  /\ (-kT <= e /\ e <= kT) => built.sites[k].energy = 0
                /\ (e < -kT \/ e > kT) => built.sites[k].energy = e

C6_Witness ==
    /\ core = "multi_site"
    /\ built.status = "ok"
    /\ temperature = 2
    /\ Len(loaded) = 3
    /\ loaded[1].energy = -1 /\ loaded[2].energy = 3 /\ loaded[3].energy = -2
    /\ built.sites[1].energy = 0 /\ built.sites[2].energy = 3 /\ built.sites[3].energy = 0

\* C7: when load_site_data yields no record, set_of_sites_from_input_data
\* fails with an error and returns no Set_of_Sites, whatever core is.
C7_EmptyInputFails ==
    (loaded = <<>> /\ built.status # "pending") =>
        /\ built.status = "ValueError"
        /\ built.sites = <<>>

C7_Witness ==
    /\ loaded = <<>>
    /\ core = "none"
    /\ built.status = "ValueError"

\* C8: iterating Set_of_Sites(a) + Set_of_Sites(b) yields the sites of a then
\* the sites of b, in order and as the same instances; the result is a new
\* Set_of_Sites with a list of its own, both operands iterate as before, and
\* adding anything that is not a Set_of_Sites raises TypeError.
C8_Concatenation ==
    last.op = "add" =>
        /\ (last.status = "ok") = (last.other.type = "Set_of_Sites")
        /\ (last.status = "TypeError") = (last.other.type # "Set_of_Sites")
        /\ iterate(last.self) = last.a
        /\ last.status = "ok" =>
            /\ iterate(last.result) = last.a \o last.b
            /\ iterate(last.other.ref) = last.b
            /\ last.result = Len(objs)
            /\ last.result \notin {last.self, last.other.ref}
            /\ \A o \in 1..Len(objs) :
                o # last.result => objs[o].sites # objs[last.result].sites

C8_Witness ==
    /\ last.op = "add"
    /\ last.status = "ok"
    /\ last.self # last.other.ref
    /\ last.a = <<1, 2>>
    /\ last.b = <<2, 1>>
    /\ iterate(last.result) = <<1, 2, 2, 1>>

\* C9: the aggregation methods leave no residual effects: across any sequence
\* of calls the site sequence, the grid's x and volumes and phi stay as they
\* were and results already returned are not touched; every returned array
\* starts from zero (its entries that no site maps to are 0); and a call
\* returns the same result however many calls came before it.
TargetOf(op) == IF op = "subgrid_calculate_defect_density" THEN sub_grid ELSE grid

C9_SameResultEachTime ==
    \A c, d \in 1..Len(calls) : calls[c].op = calls[d].op => calls[c].out = calls[d].out

C9_StartsFromZero ==
    \A c \in 1..Len(calls) :
        (calls[c].out.status = "ok" /\ calls[c].out.array.ndim = 1) =>
            \A i \in 1..Len(calls[c].out.array.data) :
                SitesAt(TargetOf(calls[c].op), i) = {} => calls[c].out.array.data[i] = 0

C9_InputsKept ==
    /\ UNCHANGED <<sites, grid, sub_grid, phi, temp>>
    /\ \A c \in 1..Len(calls) : calls'[c] = calls[c]

====
